---- MODULE Spec2Model ----
(***************************************************************************)
(* Model of video_gen_agent: the preference store (memory/database.py),    *)
(* the learning system (memory/learning.py), the video composition         *)
(* (tools/video_editor_tool.py), the download tools (tools/pexels_tool.py, *)
(* tools/pixabay_tool.py), the commands (main.py) and the agent tools      *)
(* (agent.py, agents/orchestrator.py).                                     *)
(*                                                                         *)
(* Python floats are modelled as exact rationals <<numerator, denominator>>*)
(* in lowest terms with a positive denominator.  SQL NULL / Python None is *)
(* NoScore (0) in an integer score column and NullAvg (<<0, 0>>) for an    *)
(* AVG over no non-null value.  The TIMESTAMP columns (created_at,         *)
(* updated_at) and the free-text columns are not part of the model.        *)
(***************************************************************************)
EXTENDS Integers, Sequences, FiniteSets, TLC

\* ------------------------------------------------------------------ bounds

\* Most rows the ratings table holds in a checked run.
MaxRatings == 4

\* Most paths in the video_clips list of a call.
MaxClips == 3

\* ------------------------------------------------------------- rationals

RECURSIVE GCD(_, _)
GCD(a, b) == IF b = 0 THEN a ELSE GCD(b, a % b)

Abs(n) == IF n < 0 THEN -n ELSE n

\* The float n / d (d > 0), in lowest terms.
Rat(n, d) == LET g == GCD(Abs(n), d) IN <<n \div g, d \div g>>

RAdd(x, y) == Rat(x[1] * y[2] + y[1] * x[2], x[2] * y[2])
RSub(x, y) == Rat(x[1] * y[2] - y[1] * x[2], x[2] * y[2])
RMul(x, y) == Rat(x[1] * y[1], x[2] * y[2])
RLt(x, y) == x[1] * y[2] < y[1] * x[2]
RLe(x, y) == x[1] * y[2] <= y[1] * x[2]

RDiv(x, y) == Rat(x[1] * y[2], x[2] * y[1])

\* int(x) of a non-negative float.
RFloor(x) == x[1] \div x[2]

\* ------------------------------------------------------ store: the tables

NoScore == 0
NullAvg == <<0, 0>>

Aspects == <<"script", "visuals", "audio", "pacing">>
AspectSet == {Aspects[i] : i \in 1..Len(Aspects)}

\* CHECK(score >= 1 AND score <= 5) of the ratings table; NULL passes a CHECK.
ScoreCheck(score) == score = NoScore \/ (score >= 1 /\ score <= 5)

\* The rating rows offered to save_rating: a rating that is low on every
\* aspect, a high one without a pacing score, one that scores the visuals
\* only, and one whose overall score is outside 1..5.  Between them they give
\* averages below, at and above the 3.5 threshold, the averages 3.0, 2.0 and
\* 1.0, aspects that are NULL on every row, and a script average that rises
\* from 3.0 to 3.5 with a fourth rating.
RatingInputs ==
    { [generation_id |-> 1, overall_score |-> 2, script_score |-> 3,
       visuals_score |-> 2, audio_score |-> 1, pacing_score |-> 2],
      [generation_id |-> 1, overall_score |-> 5, script_score |-> 5,
       visuals_score |-> 5, audio_score |-> 4, pacing_score |-> NoScore],
      [generation_id |-> 1, overall_score |-> 1, script_score |-> NoScore,
       visuals_score |-> 2, audio_score |-> NoScore,
       pacing_score |-> NoScore],
      [generation_id |-> 1, overall_score |-> 6, script_score |-> 1,
       visuals_score |-> 1, audio_score |-> 1, pacing_score |-> 1] }

VARIABLES
    ratings,          \* the ratings table, rows in id order
    preferences,      \* the preferences table, rows in id order
    MOVIEPY_VERSION,  \* the moviepy the module imported: 2, 1, or 0 for none
    files,            \* the media files on disk, by path
    rendered,         \* the names of the videos written to the output directory
    ret,              \* the call that is returning: its name, arguments, result
    config,           \* config.video of the global Config: format, resolution
    generations,      \* the generations table, rows in id order
    cache,            \* the files of the download cache, by path
    requests,         \* the HTTP requests issued so far
    pipelines         \* the pipelines running side by side: position, locals

vars == <<ratings, preferences, MOVIEPY_VERSION, files, rendered, ret, config,
          generations, cache, requests, pipelines>>

store == <<ratings, preferences>>
media == <<MOVIEPY_VERSION, files, rendered>>
downloads == <<cache, requests>>

Column(row, col) ==
    CASE col = "overall" -> row.overall_score
      [] col = "script" -> row.script_score
      [] col = "visuals" -> row.visuals_score
      [] col = "audio" -> row.audio_score
      [] col = "pacing" -> row.pacing_score

RECURSIVE SumCol(_, _)
SumCol(rows, col) ==
    IF rows = <<>> THEN 0
    ELSE Column(Head(rows), col) + SumCol(Tail(rows), col)

RECURSIVE CountCol(_, _)
CountCol(rows, col) ==
    IF rows = <<>> THEN 0
    ELSE (IF Column(Head(rows), col) = NoScore THEN 0 ELSE 1)
         + CountCol(Tail(rows), col)

\* SQL AVG(col): the mean of the non-NULL values, NULL when there is none.
Avg(rows, col) ==
    IF CountCol(rows, col) = 0 THEN NullAvg
    ELSE Rat(SumCol(rows, col), CountCol(rows, col))

get_ratings_by_category(rows) ==
    [overall |-> Avg(rows, "overall"),
     script |-> Avg(rows, "script"),
     visuals |-> Avg(rows, "visuals"),
     audio |-> Avg(rows, "audio"),
     pacing |-> Avg(rows, "pacing"),
     total_ratings |-> Len(rows)]

\* get_low_rated_aspects: `if avg and avg < threshold` skips None and 0.0.
Truthy(avg) == avg # NullAvg /\ avg[1] # 0

\* The loop of get_low_rated_aspects over the averages it has read.
LowAspects(averages, threshold) ==
    LET low == SelectSeq(Aspects,
                   LAMBDA a : Truthy(averages[a]) /\ RLt(averages[a], threshold))
    IN  [i \in 1..Len(low) |->
            [aspect |-> low[i], average_score |-> averages[low[i]],
             improvement_needed |-> TRUE]]

get_low_rated_aspects(rows, threshold) ==
    CHOOSE low \in {LowAspects(averages, threshold) :
                        averages \in {get_ratings_by_category(rows)}} : TRUE

\* Index of the row with this (preference_type, preference_key), 0 if none.
FindPreference(prefs, ptype, pkey) ==
    IF \E i \in 1..Len(prefs) : prefs[i].preference_type = ptype
                                /\ prefs[i].preference_key = pkey
    THEN CHOOSE i \in 1..Len(prefs) : prefs[i].preference_type = ptype
                                      /\ prefs[i].preference_key = pkey
    ELSE 0

\* A faulty upsert: a plain INSERT, without the ON CONFLICT clause.
update_preference_insert_only(prefs, ptype, pkey, pvalue, confidence) ==
    Append(prefs, [preference_type |-> ptype, preference_key |-> pkey,
                   preference_value |-> pvalue, confidence |-> confidence])

\* INSERT ... ON CONFLICT(preference_type, preference_key) DO UPDATE SET
\* preference_value, confidence: the table after the statement.
update_preference(prefs, ptype, pkey, pvalue, confidence) ==
    LET i == FindPreference(prefs, ptype, pkey)
    IN  IF i = 0
        THEN Append(prefs, [preference_type |-> ptype, preference_key |-> pkey,
                            preference_value |-> pvalue,
                            confidence |-> confidence])
        ELSE [prefs EXCEPT ![i].preference_value = pvalue,
                           ![i].confidence = confidence]

\* get_preferences(): SELECT * ... ORDER BY confidence DESC.  SQL leaves the
\* order of rows of equal confidence open: every order the statement may
\* return, as sequences of row indices.
RECURSIVE OrderedBy(_, _)
OrderedBy(prefs, idx) ==
    IF idx = {} THEN {<<>>}
    ELSE LET top == {i \in idx : \A j \in idx :
                         RLe(prefs[j].confidence, prefs[i].confidence)}
         IN  UNION {{<<i>> \o rest : rest \in OrderedBy(prefs, idx \ {i})}
                    : i \in top}

get_preferences(prefs) ==
    {[k \in 1..Len(order) |-> prefs[order[k]]]
        : order \in OrderedBy(prefs, 1..Len(prefs))}

\* --------------------------------------------------- the learning system

\* The preference analyze_ratings stores for each aspect.
LearnedPreference ==
    [script |-> [key |-> "style", value |-> "more_engaging"],
     visuals |-> [key |-> "quality", value |-> "higher_quality"],
     audio |-> [key |-> "style", value |-> "clearer_speech"],
     pacing |-> [key |-> "speed", value |-> "moderate"]]

Threshold == <<7, 2>>

\* A faulty guard: two ratings already count as a pattern.
EnoughRatings_two(total) == total >= 2

\* `if category_ratings.get("total_ratings", 0) >= 3`
EnoughRatings(total) == total >= 3

\* A faulty comparison: an average of exactly 3.5 counts as low.
IsLow_inclusive(avg) == RLe(avg, Threshold)

\* A faulty comparison: every average counts as low.
IsLow_always(avg) == TRUE

\* `category_ratings.get(aspect, 5) < 3.5`, for an average that is not None.
IsLow(avg) == RLt(avg, Threshold)

\* A faulty formula: the factor 0.1 is missing.
Confidence_unscaled(avg) == RAdd(<<1, 2>>, RSub(Threshold, avg))

\* A faulty formula: the difference is taken the other way round.
Confidence_reversed(avg) ==
    RAdd(<<1, 2>>, RMul(RSub(avg, Threshold), <<1, 10>>))

\* confidence = 0.5 + (3.5 - category_ratings[aspect]) * 0.1
Confidence(avg) == RAdd(<<1, 2>>, RMul(RSub(Threshold, avg), <<1, 10>>))

\* The four `if` blocks of analyze_ratings from block i on.  The key is always
\* in category_ratings, so .get never yields its default 5, and for an average
\* that is None the comparison None < 3.5 raises TypeError: the blocks before
\* it have committed their upserts, the blocks after it never run.
RECURSIVE AnalyzeBlocks(_, _, _, _)
AnalyzeBlocks(i, averages, prefs, recs) ==
    IF i > Len(Aspects)
    THEN [status |-> "ok", preferences |-> prefs, recommendations |-> recs]
    ELSE IF averages[Aspects[i]] = NullAvg
    THEN [status |-> "TypeError", preferences |-> prefs,
          recommendations |-> recs]
    ELSE IF IsLow(averages[Aspects[i]])
    THEN CHOOSE r \in
            {AnalyzeBlocks(i + 1, averages, upserted, recommended) :
                upserted \in {update_preference(prefs, Aspects[i],
                                  LearnedPreference[Aspects[i]].key,
                                  LearnedPreference[Aspects[i]].value,
                                  Confidence(averages[Aspects[i]]))},
                recommended \in {Append(recs, [aspect |-> Aspects[i]])}} : TRUE
    ELSE AnalyzeBlocks(i + 1, averages, prefs, recs)

\* analyze_ratings once category_ratings and low_aspects have been read.
Analyze(category_ratings, low_aspects, prefs) ==
    CHOOSE r \in
        {[status |-> blocks.status,
          preferences |-> blocks.preferences,
          insights |-> [total_ratings |-> category_ratings.total_ratings,
                        category_averages |-> category_ratings,
                        low_rated_aspects |-> low_aspects,
                        recommendations |-> blocks.recommendations]] :
            blocks \in {IF EnoughRatings(category_ratings.total_ratings)
                        THEN AnalyzeBlocks(1, category_ratings, prefs, <<>>)
                        ELSE [status |-> "ok", preferences |-> prefs,
                              recommendations |-> <<>>]}} : TRUE

\* analyze_ratings on the tables (rows, prefs): how it ends, the preferences
\* table it leaves and the insights it returns.
analyze_ratings(rows, prefs) ==
    CHOOSE r \in
        {Analyze(category_ratings, low_aspects, prefs) :
            category_ratings \in {get_ratings_by_category(rows)},
            low_aspects \in {get_low_rated_aspects(rows, Threshold)}} : TRUE

\* A faulty filter: nothing is skipped.
LowConfidence_never(pref) == FALSE

\* `if pref["confidence"] < 0.5: continue`
LowConfidence(pref) == RLt(pref.confidence, <<1, 2>>)

PromptTypes == {"script", "visuals", "audio", "pacing", "general"}

NoHint == ""

\* A faulty chain: the prompt type is not looked at.
HintFor_unfiltered(pref, prompt_type) ==
    LET t == pref.preference_type
        v == pref.preference_value
    IN  IF t = "script" /\ v = "more_engaging"
        THEN "Focus on creating highly engaging, hook-driven content"
        ELSE IF t = "visuals" /\ v = "higher_quality"
        THEN "Prioritize high-quality, professional-looking footage"
        ELSE IF t = "audio" /\ v = "clearer_speech"
        THEN "Ensure clear, well-paced narration"
        ELSE IF t = "pacing" /\ v = "moderate"
        THEN "Use moderate pacing with smooth transitions"
        ELSE NoHint

\* The if/elif chain of enhance_prompt_with_learnings for one preference:
\* the hint it appends, NoHint when it appends none.
HintFor(pref, prompt_type) ==
    LET t == pref.preference_type
        v == pref.preference_value
    IN  IF t = "script" /\ prompt_type \in {"script", "general"}
        THEN (IF v = "more_engaging"
              THEN "Focus on creating highly engaging, hook-driven content"
              ELSE NoHint)
        ELSE IF t = "visuals" /\ prompt_type \in {"visuals", "general"}
        THEN (IF v = "higher_quality"
              THEN "Prioritize high-quality, professional-looking footage"
              ELSE NoHint)
        ELSE IF t = "audio" /\ prompt_type \in {"audio", "general"}
        THEN (IF v = "clearer_speech"
              THEN "Ensure clear, well-paced narration"
              ELSE NoHint)
        ELSE IF t = "pacing" /\ prompt_type \in {"pacing", "general"}
        THEN (IF v = "moderate"
              THEN "Use moderate pacing with smooth transitions"
              ELSE NoHint)
        ELSE NoHint

RECURSIVE Enhancements(_, _)
Enhancements(prefs, prompt_type) ==
    IF prefs = <<>> THEN <<>>
    ELSE LET pref == Head(prefs)
             rest == Enhancements(Tail(prefs), prompt_type)
         IN  IF LowConfidence(pref) THEN rest
             ELSE IF HintFor(pref, prompt_type) = NoHint THEN rest
             ELSE <<HintFor(pref, prompt_type)>> \o rest

\* base_prompt + "\n\nLEARNED PREFERENCES ...:\n" + "\n".join(f"- {e}"), as
\* the lines of the text; base_prompt alone when there is no enhancement.
PromptLines(base_prompt, enhancements) ==
    IF enhancements = <<>> THEN <<base_prompt>>
    ELSE <<base_prompt, "",
           "LEARNED PREFERENCES (apply these based on past feedback):">>
         \o [k \in 1..Len(enhancements) |-> "- " \o enhancements[k]]

\* The text enhance_prompt_with_learnings returns for the preference rows in
\* the order get_preferences returned them: the base prompt followed by one
\* bullet per enhancement (no header and no bullet when there is none).
enhance_prompt_with_learnings(prefs, base_prompt, prompt_type) ==
    [base_prompt |-> base_prompt,
     enhancements |-> Enhancements(prefs, prompt_type),
     lines |-> PromptLines(base_prompt, Enhancements(prefs, prompt_type))]

\* round(x, 2) of a non-negative float, ties to even.
Round2(x) ==
    LET q == (100 * x[1]) \div x[2]
        r == (100 * x[1]) % x[2]
    IN  IF 2 * r < x[2] THEN Rat(q, 100)
        ELSE IF 2 * r > x[2] THEN Rat(q + 1, 100)
        ELSE IF q % 2 = 0 THEN Rat(q, 100)
        ELSE Rat(q + 1, 100)

\* The summary get_learning_summary builds from the insights of its call of
\* analyze_ratings and the preference rows it read after that call.
LearningSummary(insights, prefs) ==
    LET shown == SelectSeq(prefs, LAMBDA p : ~RLt(p.confidence, <<1, 2>>))
    IN  [total_generations_rated |-> insights.total_ratings,
         category_performance |->
             [c \in {a \in AspectSet : Truthy(insights.category_averages[a])} |->
                 [average |-> Round2(insights.category_averages[c]),
                  status |-> IF ~RLt(insights.category_averages[c], Threshold)
                             THEN "good" ELSE "needs_improvement"]],
         learned_preferences |->
             [i \in 1..Len(shown) |->
                 [type |-> shown[i].preference_type,
                  preference |-> <<shown[i].preference_key,
                                   shown[i].preference_value>>,
                  confidence |-> Round2(shown[i].confidence)]],
         improvement_areas |->
             [i \in 1..Len(insights.low_rated_aspects) |->
                 insights.low_rated_aspects[i].aspect]]

\* ----------------------------------------------------------- operations

\* The preference rows offered to a direct call of update_preference: under
\* the key analyze_ratings uses for scripts a low confidence and a value that
\* has no hint, and a second key of the audio type with the default
\* confidence 0.5.
PreferenceInputs ==
    { [preference_type |-> "script", preference_key |-> "style",
       preference_value |-> "more_engaging", confidence |-> <<2, 5>>],
      [preference_type |-> "script", preference_key |-> "style",
       preference_value |-> "concise", confidence |-> <<9, 10>>],
      [preference_type |-> "audio", preference_key |-> "volume",
       preference_value |-> "clearer_speech", confidence |-> <<1, 2>>] }

BasePrompts == {"Write a script."}

\* ----------------------------------------------------- video composition

VideoPaths == {"a.mp4", "b.mp4"}
AudioPaths == {"voice.mp3"}
NoPath == ""

\* Seconds a video file on disk may last, and a narration file.
ClipDurations == {2, 6, 10}
AudioDurations == {6, 7}

NoFile == [exists |-> FALSE, readable |-> FALSE, duration |-> 0]
BadFile == [exists |-> TRUE, readable |-> FALSE, duration |-> 0]
MediaFile(d) == [exists |-> TRUE, readable |-> TRUE, duration |-> d]

\* Every content of the disk: each path is absent, holds a file moviepy cannot
\* decode, or holds a file of some duration.
FileSystems ==
    {v @@ a : v \in [VideoPaths -> {NoFile, BadFile}
                                   \cup {MediaFile(d) : d \in ClipDurations}],
              a \in [AudioPaths -> {NoFile, BadFile}
                                   \cup {MediaFile(d) : d \in AudioDurations}]}

\* A faulty test: every path counts as existing.
Exists_always(path) == TRUE

\* os.path.exists(path)
Exists(path) == path \in DOMAIN files /\ files[path].exists

\* A clip: the file it reads, its duration, and the edits made to it in order.
VideoFileClip(path) ==
    [source |-> path, duration |-> Rat(files[path].duration, 1), edits |-> <<>>]

Raised == [ok |-> FALSE]

\* clip.subclipped(start, end) / clip.subclip(start, end): the part of the clip
\* from start to end; moviepy refuses an end beyond the clip.
_subclip(clip, start, end) ==
    IF RLt(clip.duration, end) THEN Raised
    ELSE [ok |-> TRUE,
          clip |-> [clip EXCEPT !.duration = RSub(end, start),
                                !.edits = Append(@, "subclip")]]

\* A faulty loop count: without the extra copy.
LoopsNeeded_floor(duration, clip_duration) ==
    RFloor(RDiv(duration, clip_duration))

\* loops_needed = int(duration / clip.duration) + 1
LoopsNeeded(duration, clip_duration) ==
    RFloor(RDiv(duration, clip_duration)) + 1

\* _loop_clip: with moviepy 2 the clip repeated loops_needed times and then
\* cut to the duration, with moviepy 1 clip.loop(duration=duration).
_loop_clip(clip, duration) ==
    IF MOVIEPY_VERSION = 2
    THEN LET loops_needed == LoopsNeeded(duration, clip.duration)
             looped == [clip EXCEPT
                            !.duration = RMul(<<loops_needed, 1>>, clip.duration),
                            !.edits = Append(@, "loop")]
         IN  _subclip(looped, <<0, 1>>, duration)
    ELSE [ok |-> TRUE,
          clip |-> [clip EXCEPT !.duration = duration,
                                !.edits = Append(@, "loop")]]

\* A faulty loop body: a clip that is exactly as long as its budget is cut too.
AdjustClip_cut_equal(clip, duration_per_clip) ==
    IF RLe(duration_per_clip, clip.duration)
    THEN _subclip(clip, <<0, 1>>, duration_per_clip)
    ELSE _loop_clip(clip, duration_per_clip)

\* The body of the loop of adjust_clips_to_duration for one clip.
AdjustClip(clip, duration_per_clip) ==
    IF RLt(duration_per_clip, clip.duration)
    THEN _subclip(clip, <<0, 1>>, duration_per_clip)
    ELSE IF RLt(clip.duration, duration_per_clip)
    THEN _loop_clip(clip, duration_per_clip)
    ELSE [ok |-> TRUE, clip |-> clip]

\* adjust_clips_to_duration: [ok, clips]; an exception of a clip operation
\* leaves the function.
adjust_clips_to_duration(clips, total_duration) ==
    IF clips = <<>> THEN [ok |-> TRUE, clips |-> clips]
    ELSE LET duration_per_clip == RDiv(total_duration, <<Len(clips), 1>>)
             adjusted == [i \in 1..Len(clips) |->
                             AdjustClip(clips[i], duration_per_clip)]
         IN  IF \E i \in 1..Len(clips) : ~adjusted[i].ok THEN Raised
             ELSE [ok |-> TRUE,
                   clips |-> [i \in 1..Len(clips) |-> adjusted[i].clip]]

RECURSIVE SumDurations(_)
SumDurations(clips) ==
    IF clips = <<>> THEN <<0, 1>>
    ELSE RAdd(Head(clips).duration, SumDurations(Tail(clips)))

\* Whether the float holds the value exactly: the durations of the model are
\* small, so a value is exact iff its denominator is a power of two.
RECURSIVE IsDyadic(_)
IsDyadic(d) == d = 1 \/ (d % 2 = 0 /\ IsDyadic(d \div 2))

\* The least difference between two float durations the model tells apart.
Ulp == <<1, 1000>>

\* By how much the float sum of the clip durations may miss the exact sum, in
\* Ulp: nothing when every duration is exact, else the sum of several rounded
\* terms may come out below, at or above it.
FloatDrift(clips) ==
    IF Len(clips) > 2 /\ \E i \in 1..Len(clips) : ~IsDyadic(clips[i].duration[2])
    THEN {-1, 0, 1}
    ELSE {0}

\* concatenate_videoclips(clips, method="compose") of at least one clip: its
\* duration is the float sum of the durations, drift Ulp away from the exact
\* sum; moviepy raises on an empty list.
concatenate_videoclips(clips, drift) ==
    [parts |-> clips,
     duration |-> RAdd(SumDurations(clips), RMul(<<drift, 1>>, Ulp)),
     edits |-> <<>>, audio |-> NoPath]

Transitions == {"none", "crossfade", "fade"}

\* A faulty fade step: every clip is faded in and out.
ApplyTransitions_every_clip(clips, transitions) ==
    IF transitions = "fade" /\ Len(clips) > 1
    THEN [i \in 1..Len(clips) |->
            [clips[i] EXCEPT !.edits = @ \o <<"fadein", "fadeout">>]]
    ELSE clips

\* The fade step of compose_video: with "fade" and more than one clip, a
\* fade-in on every clip but the first, a fade-out on every clip but the last.
ApplyTransitions(clips, transitions) ==
    IF transitions = "fade" /\ Len(clips) > 1
    THEN [i \in 1..Len(clips) |->
            [clips[i] EXCEPT !.edits =
                @ \o (IF i > 1 THEN <<"fadein">> ELSE <<>>)
                  \o (IF i < Len(clips) THEN <<"fadeout">> ELSE <<>>)]]
    ELSE clips

\* ---------------------------------------------------------- target geometry

Formats == {"horizontal", "vertical"}

\* video_format = None
NoFormat == ""

\* res_map of VideoSettings.dimensions
res_map ==
    [r \in {"720p", "1080p", "4k"} |->
        CASE r = "720p" -> <<1280, 720>>
          [] r = "1080p" -> <<1920, 1080>>
          [] r = "4k" -> <<3840, 2160>>]

\* The values DEFAULT_VIDEO_RESOLUTION may have: the three of res_map and one
\* it does not know.
ResolutionNames == DOMAIN res_map \cup {"480p"}

\* The horizontal baseline of a resolution: res_map.get(resolution, (1920, 1080)).
Baseline(resolution) ==
    IF resolution \in DOMAIN res_map THEN res_map[resolution]
    ELSE <<1920, 1080>>

Swap(d) == <<d[2], d[1]>>

\* VideoSettings.dimensions: (width, height) by format and resolution.
dimensions(video) ==
    IF video.format = "vertical" THEN Swap(Baseline(video.resolution))
    ELSE Baseline(video.resolution)

\* compose_video, "Determine target dimensions": fmt is the argument or, when
\* it is None, the configured format; the configured dimensions are swapped
\* when fmt is vertical.
TargetDimensions(video_format, video) ==
    LET fmt == IF video_format # NoFormat THEN video_format ELSE video.format
    IN  IF fmt = "vertical" THEN Swap(dimensions(video)) ELSE dimensions(video)

\* ------------------------------------------------------------- compose_video

NoVideo == [parts |-> <<>>, duration |-> <<0, 1>>, edits |-> <<>>,
            audio |-> NoPath]

NoResolution == <<0, 0>>

\* A faulty error result: the status of the success result.
ComposeError_success(message, opened, closed) ==
    [status |-> "success", error_message |-> message, raised_at |-> "",
     duration |-> <<0, 1>>, video |-> NoVideo, clips |-> <<>>,
     written |-> FALSE, opened |-> opened, closed |-> closed,
     resolution |-> NoResolution]

\* An error result of compose_video; opened and closed are the handles the
\* call opened and those it closed before it returned.
ComposeError(message, opened, closed) ==
    [status |-> "error", error_message |-> message, raised_at |-> "",
     duration |-> <<0, 1>>, video |-> NoVideo, clips |-> <<>>,
     written |-> FALSE, opened |-> opened, closed |-> closed,
     resolution |-> NoResolution]

AudioHandle == 0

\* The steps of compose_video at which a call of moviepy may raise although
\* the files are readable: the resize of the first clip, the concatenation,
\* write_videofile; or none.
Faults == {"none", "resize", "concatenate", "write"}

\* A faulty except block: it returns the error without closing anything.
ExceptClose_nothing(temp_clips) == {}

\* The except block of compose_video: every clip in temp_clips is closed.
ExceptClose(temp_clips) == temp_clips

\* The result of the except block for an exception raised at the step, with
\* the handles in temp_clips open: f"Video composition failed: {str(e)}".
ComposeFailed(step, temp_clips) ==
    [ComposeError("Video composition failed", temp_clips,
                  ExceptClose(temp_clips))
        EXCEPT !.raised_at = step]

\* `if not clips: return {"status": "error", ...}`, after the loading loop.
NoValidClips(clips) == clips = <<>>

\* A faulty final step: the concatenation is left as long as it is.
FitToAudio_unfitted(final_video, audio_duration) ==
    [ok |-> TRUE, clip |-> final_video]

\* compose_video, "Add audio": a video longer than the narration is cut to
\* it, a shorter one is looped to it.
FitToAudio(final_video, audio_duration) ==
    IF RLt(audio_duration, final_video.duration)
    THEN _subclip(final_video, <<0, 1>>, audio_duration)
    ELSE IF RLt(final_video.duration, audio_duration)
    THEN _loop_clip(final_video, audio_duration)
    ELSE [ok |-> TRUE, clip |-> final_video]

\* compose_video from "Add audio" on, for the concatenated video: it is
\* fitted to the narration, if there is one, and written at the target
\* resolution; clips are the clips that were concatenated.
ComposeJoined(final_video, clips, audio_path, temp_clips, target, fault) ==
    LET with_audio == AudioHandle \in temp_clips
        fitted == IF with_audio
                  THEN FitToAudio(final_video,
                                  Rat(files[audio_path].duration, 1))
                  ELSE [ok |-> TRUE, clip |-> final_video]
    IN  IF ~fitted.ok THEN ComposeFailed("fit", temp_clips)
        ELSE IF fault = "write" THEN ComposeFailed("write", temp_clips)
        ELSE [status |-> "success", error_message |-> "", raised_at |-> "",
              duration |-> fitted.clip.duration,
              video |-> IF with_audio
                        THEN [fitted.clip EXCEPT !.audio = audio_path]
                        ELSE fitted.clip,
              clips |-> clips,
              written |-> TRUE, opened |-> temp_clips,
              closed |-> temp_clips, resolution |-> target]

\* compose_video from the audio step on, for the loaded clips: the narration
\* is read, the clips are reconciled, faded and concatenated.  The video
\* handles are 1..Len(clips).  The results the call may have: one for every
\* way the float sum of the durations may come out.
ComposeLoaded(clips, audio_path, target, transitions, fault) ==
    LET videos == 1..Len(clips)
        with_audio == audio_path # NoPath /\ Exists(audio_path)
        temp_clips == IF with_audio /\ files[audio_path].readable
                      THEN videos \cup {AudioHandle} ELSE videos
    IN  IF with_audio /\ ~files[audio_path].readable
        THEN {ComposeFailed("audio", temp_clips)}
        ELSE
        LET audio_duration == IF with_audio
                              THEN Rat(files[audio_path].duration, 1)
                              ELSE <<0, 1>>
            adjusted == IF with_audio /\ audio_duration[1] # 0
                        THEN adjust_clips_to_duration(clips, audio_duration)
                        ELSE [ok |-> TRUE, clips |-> clips]
        IN  IF ~adjusted.ok THEN {ComposeFailed("adjust", temp_clips)}
            ELSE IF fault = "concatenate"
            THEN {ComposeFailed("concatenate", temp_clips)}
            ELSE {ComposeJoined(concatenate_videoclips(faded, drift), faded,
                                audio_path, temp_clips, target, fault) :
                     faded \in {ApplyTransitions(adjusted.clips, transitions)},
                     drift \in FloatDrift(adjusted.clips)}

\* A faulty loading loop: it stops after the first clip it has loaded.
LoadClips_first_only(video_clips) ==
    LET existing == SelectSeq(video_clips, Exists)
    IN  IF existing = <<>> THEN <<>> ELSE <<VideoFileClip(existing[1])>>

\* The clips compose_video loads: one for every path that exists, in the
\* order of the list.
LoadClips(video_clips) ==
    LET existing == SelectSeq(video_clips, Exists)
    IN  [i \in 1..Len(existing) |-> VideoFileClip(existing[i])]

\* compose_video(video_clips, audio_path, output_name, video_format,
\* transitions) under the settings config.video: the results it may have.
compose_video(video, video_clips, audio_path, video_format, transitions, fault) ==
    IF MOVIEPY_VERSION = 0
    THEN {ComposeError("moviepy not installed", {}, {})}
    ELSE IF video_clips = <<>>
    THEN {ComposeError("No video clips provided", {}, {})}
    ELSE
    LET existing == SelectSeq(video_clips, Exists)
        bad == {i \in 1..Len(existing) : ~files[existing[i]].readable}
    IN  IF bad # {}
        THEN \* VideoFileClip raises on the first file it cannot decode: the
             \* clips loaded before it are in temp_clips.
             LET first == CHOOSE i \in bad : \A j \in bad : i <= j
             IN  {ComposeFailed("load", 1..(first - 1))}
        ELSE IF NoValidClips(LoadClips(video_clips))
        THEN {ComposeError("No valid video clips could be loaded", {}, {})}
        ELSE IF fault = "resize"
        THEN \* the first clip is in temp_clips when its resize raises
             {ComposeFailed("resize", {1})}
        ELSE ComposeLoaded(LoadClips(video_clips), audio_path,
                           TargetDimensions(video_format, video),
                           transitions, fault)

\* ------------------------------------------------------- resize and crop

\* The fraction bits of a Python float (an IEEE 754 double).
MantissaBits == 52

RECURSIVE FloorLog2(_, _)
\* The binary exponent a of the quotient p / q: 2^a <= p / q < 2^(a + 1).
FloorLog2(p, q) ==
    IF p >= 2 * q THEN FloorLog2(p, 2 * q) + 1
    ELSE IF p < q THEN FloorLog2(2 * p, q) - 1
    ELSE 0

RECURSIVE ShiftMod(_, _, _)
\* (r * 2^s) % h
ShiftMod(r, h, s) == IF s = 0 THEN r ELSE ShiftMod((2 * r) % h, h, s - 1)

\* 2^k as a fraction, for k of either sign.
RECURSIVE Pow2(_)
Pow2(k) ==
    IF k = 0 THEN <<1, 1>>
    ELSE IF k > 0 THEN <<2 * Pow2(k - 1)[1], 1>>
    ELSE <<1, 2 * Pow2(k + 1)[2]>>

\* The float w / h is the fraction (w * 2^s + t) / (h * 2^s) with
\* s = MantissaBits - FloorLog2(w, h): the quotient rounded to the nearest
\* float. RoundErr is t: 0 when the quotient is a float, negative when it
\* was rounded down, positive when it was rounded up.
RoundErr(w, h) ==
    LET r == ShiftMod(w % h, h, MantissaBits - FloorLog2(w, h))
    IN  IF 2 * r < h THEN 0 - r ELSE h - r

\* int(target_width / clip_aspect) with clip_aspect the float w / h. The
\* quotient of the floats is below target_width * h / w when clip_aspect was
\* rounded up; it is rounded to the integer n above it unless it lies nearer
\* to the float below n, and then int() gives n - 1.
IntQuotient(target_width, w, h) ==
    LET n == (target_width * h) \div w
        t == RoundErr(w, h)
        e == FloorLog2(n, 1)
        a == FloorLog2(w, h)
        half == Pow2(IF n = Pow2(e)[1] THEN e - a - 2 ELSE e - a - 1)
    IN  IF (target_width * h) % w = 0 /\ t > 0
           /\ w * half[1] < t * n * half[2]
        THEN n - 1
        ELSE n

\* int(clip_aspect * target_height) with clip_aspect the float w / h: the
\* product is below w * target_height / h when clip_aspect was rounded down.
IntProduct(w, h, target_height) ==
    LET n == (w * target_height) \div h
        t == RoundErr(w, h)
        e == FloorLog2(n, 1)
        a == FloorLog2(w, h)
        half == Pow2(IF n = Pow2(e)[1] THEN a + 2 - e ELSE a + 1 - e)
    IN  IF (w * target_height) % h = 0 /\ t < 0
           /\ (0 - t) * target_height * half[1] > h * half[2]
        THEN n - 1
        ELSE n

\* resize_clip_to_fill, the size the clip is resized to. The two aspects are
\* floats of quotients of small integers: they compare as the quotients do.
NewSize(w, h, target_width, target_height) ==
    IF w * target_height > target_width * h
    THEN <<IntProduct(w, h, target_height), target_height>>
    ELSE <<target_width, IntQuotient(target_width, w, h)>>

\* Python's //, which rounds towards minus infinity.
FloorDiv2(x) == IF x >= 0 THEN x \div 2 ELSE 0 - ((1 - x) \div 2)

\* resize_clip_to_fill: the resized frame and the crop rectangle.
resize_clip_to_fill(clip, target_width, target_height) ==
    LET new == NewSize(clip[1], clip[2], target_width, target_height)
        x1 == FloorDiv2(new[1] - target_width)
        y1 == FloorDiv2(new[2] - target_height)
    IN  [resized |-> new, x1 |-> x1, y1 |-> y1,
         x2 |-> x1 + target_width, y2 |-> y1 + target_height]

\* The frame sizes of the clips the stock libraries deliver, and the targets
\* compose_video and other callers pass.
ClipSizes ==
    {<<640, 480>>, <<1920, 1080>>, <<1080, 1920>>, <<1280, 720>>,
     <<3840, 2160>>, <<4096, 2160>>, <<2560, 1440>>, <<1440, 1080>>, <<720, 720>>,
     <<434, 49>>, <<231, 209>>, <<517, 846>>, <<853, 480>>}

TargetSizes ==
    {<<1920, 1080>>, <<1080, 1920>>, <<1280, 720>>, <<720, 1280>>,
     <<3840, 2160>>, <<2160, 3840>>, <<1116, 126>>, <<735, 665>>,
     <<33, 54>>}

\* ---------------------------------------------------------------- trimming

\* trim_video(video_path, start_time, end_time): its result, with the clip
\* handles it opened and those it closed before it returned (the clip read
\* from video_path is handle 1).  fault is the call of moviepy that raises
\* although the file is readable: the sub-clipping, write_videofile, or none.
\* The except block returns the error result and closes nothing.
trim_video(video_path, start_time, end_time, fault) ==
    IF MOVIEPY_VERSION = 0
    THEN [status |-> "error", error_message |-> "moviepy not installed",
          duration |-> <<0, 1>>, opened |-> {}, closed |-> {}]
    ELSE IF ~Exists(video_path)
    THEN [status |-> "error", error_message |-> "Video not found",
          duration |-> <<0, 1>>, opened |-> {}, closed |-> {}]
    ELSE IF ~files[video_path].readable
    THEN \* VideoFileClip raises: no clip was opened
         [status |-> "error", error_message |-> "Trim failed",
          duration |-> <<0, 1>>, opened |-> {}, closed |-> {}]
    ELSE
    LET clip == VideoFileClip(video_path)
        end == IF RLt(clip.duration, end_time) THEN clip.duration
               ELSE end_time
        trimmed == _subclip(clip, start_time, end)
    IN  IF fault = "subclip" \/ ~trimmed.ok \/ fault = "write"
        THEN [status |-> "error", error_message |-> "Trim failed",
              duration |-> <<0, 1>>, opened |-> {1}, closed |-> {}]
        ELSE [status |-> "success", error_message |-> "",
              duration |-> trimmed.clip.duration,
              opened |-> {1}, closed |-> {1}]

\* ------------------------------------------------------------- downloads

\* The two download tools.
Sources == {"pexels", "pixabay"}

MediaIds == {"101", "102"}

\* What the path part of a URL (before any "?") may end with: an extension
\* one of the tools knows, or something else.
UrlSuffixes == {".mp4", ".mov", ".jpg", ""}

\* Pixabay's media_type.
MediaTypes == {"video", "image"}

\* download_pexels_video, "Determine file extension from URL".
PexelsExt(suffix) == IF suffix = ".mov" THEN ".mov" ELSE ".mp4"

\* download_pixabay_media, "Determine extension": the default of the media
\* type unless the URL path ends with a known extension.
PixabayExt(suffix, media_type) ==
    IF suffix \in {".mp4", ".mov", ".jpg", ".png", ".webp"} THEN suffix
    ELSE IF media_type = "video" THEN ".mp4" ELSE ".jpg"

\* file_path = save_dir / f"{source}_{id}{ext}"; save_dir is
\* cache_dir/videos/pexels, cache_dir/videos/pixabay or
\* cache_dir/images/pixabay.
FilePath(source, subdir, id, ext) ==
    [source |-> source, subdir |-> subdir, id |-> id, ext |-> ext]

PexelsPath(suffix, id) == FilePath("pexels", "videos", id, PexelsExt(suffix))

PixabayPath(suffix, id, media_type) ==
    FilePath("pixabay", IF media_type = "video" THEN "videos" ELSE "images",
             id, PixabayExt(suffix, media_type))

\* Every path a download may write.
CacheFiles ==
    {PexelsPath(x, id) : x \in UrlSuffixes, id \in MediaIds}
       \cup {PixabayPath(x, id, t) :
                x \in UrlSuffixes, id \in MediaIds, t \in MediaTypes}

\* How requests.get and the streaming of the body may end: the request fails
\* before a byte is written (RequestException of get or raise_for_status),
\* the transfer breaks after the file was opened (RequestException of
\* iter_content), or the whole body is written.
Transfers == {"refused", "broken", "complete"}

\* A faulty cache check: the file is fetched again although it exists.
IsCached_never(state) == FALSE

\* `if file_path.exists()`
IsCached(state) == state # "absent"

\* The download of the body to file_path: [result, file, requested], file
\* being the state the file is left in.
Download(file_path, state, transfer) ==
    IF IsCached(state)
    THEN [result |-> [status |-> "success", file_path |-> file_path,
                      cached |-> TRUE],
          file |-> state, requested |-> FALSE]
    ELSE IF transfer = "complete"
    THEN [result |-> [status |-> "success", file_path |-> file_path,
                      cached |-> FALSE],
          file |-> "complete", requested |-> TRUE]
    ELSE [result |-> [status |-> "error",
                      error_message |-> "Failed to download"],
          file |-> IF transfer = "broken" THEN "partial" ELSE state,
          requested |-> TRUE]

\* The network requests a run may issue.
MaxRequests == 2

\* ------------------------------------------------- the generations table

\* The generations a run may save.
MaxGenerations == 2

\* get_generation's None.
NoGeneration == [id |-> 0, video_format |-> NoFormat]

\* A faulty insert: one row is kept, the latest.
save_generation_single_row(rows, video_format) ==
    <<[id |-> 1, video_format |-> video_format]>>

\* VideoGenDatabase.save_generation: the INSERT; AUTOINCREMENT gives the
\* ids 1, 2, ... and no code deletes a row.
save_generation(rows, video_format) ==
    Append(rows, [id |-> Len(rows) + 1, video_format |-> video_format])

\* A faulty lookup: the latest generation is returned for an unknown id.
get_generation_latest(rows, generation_id) ==
    IF rows = <<>> THEN NoGeneration ELSE rows[Len(rows)]

\* VideoGenDatabase.get_generation: SELECT * FROM generations WHERE id = ?
get_generation(rows, generation_id) ==
    IF \E i \in 1..Len(rows) : rows[i].id = generation_id
    THEN rows[CHOOSE i \in 1..Len(rows) : rows[i].id = generation_id]
    ELSE NoGeneration

\* The scores the rate command accepts: argparse's choices=[1, 2, 3, 4, 5],
\* --overall required, the others optional.
CliRatingInputs ==
    {r \in RatingInputs :
        /\ r.overall_score \in 1..5
        /\ \A a \in AspectSet : r[a \o "_score"] \in {NoScore} \cup 1..5}

\* The topics a rating tool is called with.
Topics == {"volcanoes", "tides"}

\* The scores the agent passes to save_generation_rating: aspect scores left
\* out take the default 3.
ToolRatingInputs ==
    {[a \in DOMAIN r |-> IF r[a] = NoScore THEN 3 ELSE r[a]] :
        r \in CliRatingInputs}

\* ------------------------------------------- rating submissions side by side

\* The ratings submitted side by side: one that is low on every aspect and
\* one that is high on every aspect.
SubmissionInputs ==
    { [generation_id |-> 1, overall_score |-> 2, script_score |-> 3,
       visuals_score |-> 2, audio_score |-> 1, pacing_score |-> 2],
      [generation_id |-> 2, overall_score |-> 5, script_score |-> 5,
       visuals_score |-> 5, audio_score |-> 5, pacing_score |-> 5] }

\* A submission that is not running: no locals.
NoSubmission ==
    [pc |-> "idle", status |-> "ok", category_ratings |-> <<>>,
     low_aspects |-> <<>>, recommendations |-> <<>>, block |-> 0]

\* --------------------------------------------- generations in threads

Pipelines == {1, 2}

RECURSIVE SeqsUpTo(_, _)
SeqsUpTo(S, n) ==
    IF n = 0 THEN {<<>>}
    ELSE LET shorter == SeqsUpTo(S, n - 1)
         IN  shorter \cup {Append(q, x) : q \in shorter, x \in S}

OutputName == "output"

Idle == [op |-> "none", status |-> "ok"]

InitMedia ==
    /\ MOVIEPY_VERSION = 2
    /\ files = [p \in VideoPaths \cup AudioPaths |-> NoFile]
    /\ rendered = {}

\* Config.__post_init__ without DEFAULT_VIDEO_FORMAT and
\* DEFAULT_VIDEO_RESOLUTION in the environment.
DefaultVideoSettings == [format |-> "horizontal", resolution |-> "1080p"]

InitConfig == config = DefaultVideoSettings

\* An empty download cache, no request issued yet.
InitDownloads ==
    /\ cache = [f \in CacheFiles |-> "absent"]
    /\ requests = 0

\* No generation is running in a thread.
InitPipelines ==
    pipelines = [p \in Pipelines |->
                    [pc |-> "idle", video_format |-> NoFormat,
                     target |-> NoResolution]]

InitStore ==
    /\ ratings = <<>>
    /\ preferences = <<>>
    /\ generations = <<>>
    /\ ret = Idle

\* VideoGenDatabase.save_rating: the INSERT, refused by a CHECK constraint
\* (sqlite3.IntegrityError) when a score is outside 1..5.
SaveRating ==
    /\ ret = Idle
    /\ Len(ratings) < MaxRatings
    /\ \E r \in RatingInputs :
          IF /\ ScoreCheck(r.overall_score) /\ ScoreCheck(r.script_score)
             /\ ScoreCheck(r.visuals_score) /\ ScoreCheck(r.audio_score)
             /\ ScoreCheck(r.pacing_score)
          THEN /\ ratings' = Append(ratings, r)
               /\ ret' = [op |-> "save_rating", status |-> "ok",
                          rating_id |-> Len(ratings) + 1]
          ELSE /\ ratings' = ratings
               /\ ret' = [op |-> "save_rating", status |-> "IntegrityError",
                          rating_id |-> 0]
    /\ UNCHANGED <<preferences, media, config, generations, downloads, pipelines>>

\* VideoGenDatabase.update_preference, called directly.
UpdatePreference ==
    /\ ret = Idle
    /\ \E p \in PreferenceInputs :
          /\ preferences' = update_preference(preferences, p.preference_type,
                                p.preference_key, p.preference_value,
                                p.confidence)
          /\ ret' = [op |-> "update_preference", status |-> "ok", row |-> p]
    /\ UNCHANGED <<ratings, media, config, generations, downloads, pipelines>>

\* LearningSystem.analyze_ratings; a TypeError leaves it without a result.
AnalyzeRatings ==
    /\ ret = Idle
    /\ \E a \in {analyze_ratings(ratings, preferences)} :
          /\ preferences' = a.preferences
          /\ ret' = IF a.status = "ok"
                    THEN [op |-> "analyze_ratings", status |-> "ok",
                          insights |-> a.insights]
                    ELSE [op |-> "analyze_ratings", status |-> a.status]
    /\ UNCHANGED <<ratings, media, config, generations, downloads, pipelines>>

\* LearningSystem.get_learning_summary: analyze_ratings, then get_preferences,
\* then the summary; a TypeError of analyze_ratings propagates.
GetLearningSummary ==
    /\ ret = Idle
    /\ \E a \in {analyze_ratings(ratings, preferences)} :
          /\ preferences' = a.preferences
          /\ IF a.status = "ok"
             THEN \E prefs \in get_preferences(a.preferences) :
                     ret' = [op |-> "get_learning_summary", status |-> "ok",
                             summary |-> LearningSummary(a.insights, prefs)]
             ELSE ret' = [op |-> "get_learning_summary", status |-> a.status]
    /\ UNCHANGED <<ratings, media, config, generations, downloads, pipelines>>

\* LearningSystem.enhance_prompt_with_learnings.
EnhancePrompt ==
    /\ ret = Idle
    /\ \E prefs \in get_preferences(preferences) :
          \E base_prompt \in BasePrompts, prompt_type \in PromptTypes :
             ret' = [op |-> "enhance_prompt_with_learnings", status |-> "ok",
                     prompt_type |-> prompt_type,
                     text |-> enhance_prompt_with_learnings(
                                  prefs, base_prompt, prompt_type)]
    /\ UNCHANGED <<store, media, config, generations, downloads, pipelines>>

\* compose_video, called with a list of clip paths, an audio path or none,
\* and a transition.
ComposeVideo ==
    /\ ret = Idle
    /\ \E video_clips \in SeqsUpTo(VideoPaths, MaxClips),
          audio_path \in AudioPaths \cup {NoPath},
          video_format \in Formats \cup {NoFormat},
          transitions \in Transitions,
          fault \in Faults :
          \E r \in compose_video(config, video_clips, audio_path,
                                 video_format, transitions, fault) :
             /\ rendered' = IF r.written THEN rendered \cup {OutputName}
                            ELSE rendered
             /\ ret' = [op |-> "compose_video", status |-> r.status,
                        video_clips |-> video_clips,
                        audio_path |-> audio_path,
                        video_format |-> video_format,
                        transitions |-> transitions, result |-> r]
    /\ UNCHANGED <<store, MOVIEPY_VERSION, files, config, generations,
                   downloads, pipelines>>

\* compose_video of agent.py, the tool of the ADK root agent: it passes its
\* arguments on and leaves the settings alone.
AgentComposeVideo ==
    /\ ret = Idle
    /\ \E video_clips \in SeqsUpTo(VideoPaths, MaxClips),
          audio_path \in AudioPaths \cup {NoPath},
          video_format \in Formats,
          transitions \in Transitions,
          fault \in Faults :
          \E r \in compose_video(config, video_clips, audio_path,
                                 video_format, transitions, fault) :
             /\ rendered' = IF r.written THEN rendered \cup {OutputName}
                            ELSE rendered
             /\ ret' = [op |-> "agent.compose_video", status |-> r.status,
                        video_clips |-> video_clips,
                        audio_path |-> audio_path,
                        video_format |-> video_format,
                        transitions |-> transitions, result |-> r]
    /\ UNCHANGED <<store, MOVIEPY_VERSION, files, config, generations,
                   downloads, pipelines>>

\* compose_video of agents/orchestrator.py: it stores the format in
\* config.video.format and then composes.
OrchestratorComposeVideo ==
    /\ ret = Idle
    /\ \E video_clips \in SeqsUpTo(VideoPaths, MaxClips),
          audio_path \in AudioPaths \cup {NoPath},
          video_format \in Formats,
          transitions \in Transitions,
          fault \in Faults :
          /\ config' = [config EXCEPT !.format = video_format]
          /\ \E r \in compose_video(config', video_clips, audio_path,
                                    video_format, transitions, fault) :
                /\ rendered' = IF r.written THEN rendered \cup {OutputName}
                               ELSE rendered
                /\ ret' = [op |-> "orchestrator.compose_video",
                           status |-> r.status,
                           video_clips |-> video_clips,
                           audio_path |-> audio_path,
                           video_format |-> video_format,
                           transitions |-> transitions, result |-> r]
    /\ UNCHANGED <<store, MOVIEPY_VERSION, files, generations, downloads,
                   pipelines>>

\* VideoGenerationAgent.generate, run by thread p: its first statement
\* stores the format of the generation in the settings all threads share.
Generate(p) ==
    /\ pipelines[p].pc = "idle"
    /\ \E video_format \in Formats :
          /\ config' = [config EXCEPT !.format = video_format]
          /\ pipelines' = [pipelines EXCEPT
                              ![p] = [pc |-> "generating",
                                      video_format |-> video_format,
                                      target |-> NoResolution]]
    /\ UNCHANGED <<store, media, ret, generations, downloads>>

\* The agent of thread p calls the compose_video tool of the orchestrator
\* with the format of its generation: the tool stores the format.
ToolSetFormat(p) ==
    /\ pipelines[p].pc = "generating"
    /\ config' = [config EXCEPT !.format = pipelines[p].video_format]
    /\ pipelines' = [pipelines EXCEPT ![p].pc = "composing"]
    /\ UNCHANGED <<store, media, ret, generations, downloads>>

\* compose_video of the video editor, called by the tool of thread p, reads
\* the settings and fixes its target, the resolution of the result.
ToolReadTarget(p) ==
    /\ pipelines[p].pc = "composing"
    /\ pipelines' = [pipelines EXCEPT
                        ![p].pc = "composed",
                        ![p].target = TargetDimensions(
                                          pipelines[p].video_format, config)]
    /\ UNCHANGED <<store, media, ret, config, generations, downloads>>

\* The generation of thread p is over.
Finish(p) ==
    /\ pipelines[p].pc = "composed"
    /\ pipelines' = [pipelines EXCEPT
                        ![p] = [pc |-> "idle", video_format |-> NoFormat,
                                target |-> NoResolution]]
    /\ UNCHANGED <<store, media, ret, config, generations, downloads>>

\* adjust_clips_to_duration, called on clips of every duration a file may have.
AdjustClipsToDuration ==
    /\ ret = Idle
    /\ MOVIEPY_VERSION # 0
    /\ \E video_clips \in SeqsUpTo(VideoPaths, MaxClips),
          total_duration \in AudioDurations :
          /\ \A i \in 1..Len(video_clips) :
                Exists(video_clips[i]) /\ files[video_clips[i]].readable
          /\ \E clips \in {[i \in 1..Len(video_clips) |->
                              VideoFileClip(video_clips[i])]} :
                ret' = [op |-> "adjust_clips_to_duration", status |-> "ok",
                        clips |-> clips,
                        total_duration |-> Rat(total_duration, 1),
                        result |-> adjust_clips_to_duration(
                                       clips, Rat(total_duration, 1))]
    /\ UNCHANGED <<store, media, config, generations, downloads, pipelines>>

\* resize_clip_to_fill, called on a clip of every size with every target.
ResizeClipToFill ==
    /\ ret = Idle
    /\ \E clip \in ClipSizes, target \in TargetSizes :
          ret' = [op |-> "resize_clip_to_fill", status |-> "ok",
                  clip |-> clip,
                  target_width |-> target[1], target_height |-> target[2],
                  result |-> resize_clip_to_fill(clip, target[1], target[2])]
    /\ UNCHANGED <<store, media, config, generations, downloads, pipelines>>

\* download_pexels_video(video_url, video_id) into the cache directory.
DownloadPexelsVideo ==
    /\ ret = Idle
    /\ \E suffix \in UrlSuffixes, video_id \in MediaIds,
          transfer \in Transfers :
          \E file_path \in {PexelsPath(suffix, video_id)} :
             \E d \in {Download(file_path, cache[file_path], transfer)} :
                /\ d.requested => requests < MaxRequests
                /\ cache' = [cache EXCEPT ![file_path] = d.file]
                /\ requests' = IF d.requested THEN requests + 1 ELSE requests
                /\ ret' = [op |-> "download_pexels_video",
                           status |-> d.result.status,
                           file_path |-> file_path, result |-> d.result]
    /\ UNCHANGED <<store, media, config, generations, pipelines>>

\* download_pixabay_media(media_url, media_id, media_type) into the cache
\* directory.
DownloadPixabayMedia ==
    /\ ret = Idle
    /\ \E suffix \in UrlSuffixes, media_id \in MediaIds,
          media_type \in MediaTypes, transfer \in Transfers :
          \E file_path \in {PixabayPath(suffix, media_id, media_type)} :
             \E d \in {Download(file_path, cache[file_path], transfer)} :
                /\ d.requested => requests < MaxRequests
                /\ cache' = [cache EXCEPT ![file_path] = d.file]
                /\ requests' = IF d.requested THEN requests + 1 ELSE requests
                /\ ret' = [op |-> "download_pixabay_media",
                           status |-> d.result.status,
                           file_path |-> file_path, result |-> d.result]
    /\ UNCHANGED <<store, media, config, generations, pipelines>>

\* generate_video_cli after a completed generation: db.save_generation.
SaveGeneration ==
    /\ ret = Idle
    /\ Len(generations) < MaxGenerations
    /\ \E video_format \in Formats :
          /\ generations' = save_generation(generations, video_format)
          /\ ret' = [op |-> "save_generation", status |-> "ok",
                     generation_id |-> Len(generations) + 1]
    /\ UNCHANGED <<store, media, config, downloads, pipelines>>

\* rate_video_cli: get_generation; when there is none the message and the
\* return, else save_rating and get_learning_summary, whose TypeError
\* propagates.
RateVideoCli ==
    /\ ret = Idle
    /\ \E generation_id \in 0..(MaxGenerations + 1), r \in CliRatingInputs :
          IF get_generation(generations, generation_id) = NoGeneration
          THEN /\ ret' = [op |-> "rate_video_cli", status |-> "ok",
                          generation_id |-> generation_id,
                          printed |-> "not found", rating_id |-> 0]
               /\ UNCHANGED <<ratings, preferences>>
          ELSE /\ Len(ratings) < MaxRatings
               /\ \E saved \in {Append(ratings,
                         [r EXCEPT !.generation_id = generation_id])} :
                     \E a \in {analyze_ratings(saved, preferences)} :
                        /\ ratings' = saved
                        /\ preferences' = a.preferences
                        /\ ret' = [op |-> "rate_video_cli",
                                   status |-> a.status,
                                   generation_id |-> generation_id,
                                   printed |-> "saved",
                                   rating_id |-> Len(saved)]
    /\ UNCHANGED <<media, config, generations, downloads, pipelines>>

\* save_generation_rating of agent.py: memory/database.py defines no
\* GenerationDatabase (its class is VideoGenDatabase), so the import in the
\* try block raises ImportError before anything is read or written; the
\* except block sets saved_to_db = False and rating_id = None, and the
\* success result is returned.
AgentSaveGenerationRating ==
    /\ ret = Idle
    /\ \E generation_topic \in Topics, r \in ToolRatingInputs :
          ret' = [op |-> "save_generation_rating", status |-> "success",
                  message |-> "Rating saved",
                  generation_topic |-> generation_topic, rating |-> r,
                  saved_to_database |-> FALSE, rating_id |-> 0]
    /\ UNCHANGED <<store, media, config, generations, downloads, pipelines>>

\* save_generation_rating of agents/orchestrator.py: the success result, and
\* nothing else.
OrchestratorSaveGenerationRating ==
    /\ ret = Idle
    /\ \E generation_topic \in Topics, r \in ToolRatingInputs :
          ret' = [op |-> "save_generation_rating", status |-> "success",
                  message |-> "Rating saved",
                  generation_topic |-> generation_topic, rating |-> r]
    /\ UNCHANGED <<store, media, config, generations, downloads, pipelines>>

\* rate_video_cli in pipeline p, db.save_rating: the INSERT is committed.
SubmitRating(p) ==
    /\ pipelines[p].pc = "idle"
    /\ Len(ratings) < MaxRatings
    /\ \E r \in SubmissionInputs : ratings' = Append(ratings, r)
    /\ pipelines' = [pipelines EXCEPT ![p].pc = "saved"]
    /\ UNCHANGED <<preferences, media, ret, config, generations, downloads>>

\* analyze_ratings in pipeline p, learning.py:24: the SELECT of
\* get_ratings_by_category.
AnalyzeReadCategories(p) ==
    /\ pipelines[p].pc = "saved"
    /\ pipelines' = [pipelines EXCEPT
                        ![p].pc = "read",
                        ![p].category_ratings =
                            get_ratings_by_category(ratings)]
    /\ UNCHANGED <<store, media, ret, config, generations, downloads>>

\* analyze_ratings in pipeline p, learning.py:25: get_low_rated_aspects with
\* its own SELECT; then the insights dict and the guard on total_ratings.
AnalyzeReadLowAspects(p) ==
    /\ pipelines[p].pc = "read"
    /\ pipelines' = [pipelines EXCEPT
                        ![p].pc =
                            IF EnoughRatings(
                                   pipelines[p].category_ratings.total_ratings)
                            THEN "blocks" ELSE "done",
                        ![p].low_aspects =
                            get_low_rated_aspects(ratings, Threshold),
                        ![p].block = 1]
    /\ UNCHANGED <<store, media, ret, config, generations, downloads>>

\* analyze_ratings in pipeline p, one of the four `if` blocks: the comparison
\* of the average read at line 24 and, when it is low, the recommendation and
\* the committed upsert.
AnalyzeBlock(p) ==
    /\ pipelines[p].pc = "blocks"
    /\ \E a \in {Aspects[pipelines[p].block]},
          next \in {IF pipelines[p].block = Len(Aspects)
                    THEN "done" ELSE "blocks"} :
          \E avg \in {pipelines[p].category_ratings[a]} :
             IF avg = NullAvg
             THEN /\ pipelines' = [pipelines EXCEPT ![p].pc = "done",
                                       ![p].status = "TypeError"]
                  /\ UNCHANGED preferences
             ELSE IF IsLow(avg)
             THEN /\ preferences' = update_preference(preferences, a,
                                        LearnedPreference[a].key,
                                        LearnedPreference[a].value,
                                        Confidence(avg))
                  /\ pipelines' = [pipelines EXCEPT
                                      ![p].pc = next,
                                      ![p].block = @ + 1,
                                      ![p].recommendations =
                                          Append(@, [aspect |-> a])]
             ELSE /\ pipelines' = [pipelines EXCEPT ![p].pc = next,
                                                    ![p].block = @ + 1]
                  /\ UNCHANGED preferences
    /\ UNCHANGED <<ratings, media, ret, config, generations, downloads>>

\* rate_video_cli in pipeline p has printed its summary and returns.
SubmitFinish(p) ==
    /\ pipelines[p].pc = "done"
    /\ pipelines' = [pipelines EXCEPT ![p] = NoSubmission]
    /\ UNCHANGED <<store, media, ret, config, generations, downloads>>

\* trim_video, called for a path with a start and an end inside or beyond the
\* clip.
TrimVideo ==
    /\ ret = Idle
    /\ \E video_path \in VideoPaths, start_time \in {0, 1},
          end_time \in {2, 8}, fault \in {"none", "subclip", "write"} :
          \E r \in {trim_video(video_path, Rat(start_time, 1),
                               Rat(end_time, 1), fault)} :
             ret' = [op |-> "trim_video", status |-> r.status,
                     video_path |-> video_path, result |-> r]
    /\ UNCHANGED <<store, media, config, generations, downloads, pipelines>>

\* The caller has taken the result: a call runs to its end before the next
\* one starts.
Return ==
    /\ ret # Idle
    /\ ret' = Idle
    /\ UNCHANGED <<store, media, config, generations, downloads, pipelines>>

Init == InitStore /\ InitMedia /\ InitConfig /\ InitDownloads /\ InitPipelines

\* The learning loop as the program runs it: ratings are saved and analysed,
\* prompts are enhanced.
NextLearn ==
    \/ SaveRating
    \/ AnalyzeRatings
    \/ GetLearningSummary
    \/ EnhancePrompt
    \/ Return

SpecLearn == Init /\ [][NextLearn]_vars

\* The store and the learning system with every public operation.
Next ==
    \/ SaveRating
    \/ UpdatePreference
    \/ AnalyzeRatings
    \/ GetLearningSummary
    \/ EnhancePrompt
    \/ Return

Spec == Init /\ [][Next]_vars

\* The composition on every content of the disk and with every moviepy.
InitCompose ==
    /\ InitStore
    /\ InitConfig
    /\ InitDownloads
    /\ InitPipelines
    /\ MOVIEPY_VERSION \in {0, 1, 2}
    /\ files \in FileSystems
    /\ rendered = {}

NextCompose ==
    \/ ComposeVideo
    \/ AdjustClipsToDuration
    \/ Return

SpecCompose == InitCompose /\ [][NextCompose]_vars

\* The settings the environment may give (DEFAULT_VIDEO_FORMAT,
\* DEFAULT_VIDEO_RESOLUTION).
VideoSettings == [format : Formats, resolution : ResolutionNames]

\* A disk with two clips and a narration.
SomeFiles ==
    [p \in VideoPaths \cup AudioPaths |->
        IF p = "a.mp4" THEN MediaFile(6)
        ELSE IF p = "b.mp4" THEN MediaFile(2)
        ELSE MediaFile(6)]

\* The composition by every caller, under every setting.
InitGeometry ==
    /\ InitStore
    /\ InitDownloads
    /\ InitPipelines
    /\ config \in VideoSettings
    /\ MOVIEPY_VERSION = 2
    /\ files = SomeFiles
    /\ rendered = {}

NextGeometry ==
    \/ ComposeVideo
    \/ AgentComposeVideo
    \/ OrchestratorComposeVideo
    \/ Return

SpecGeometry == InitGeometry /\ [][NextGeometry]_vars

\* Generations running in threads of one process, under every setting.
InitConcurrent ==
    /\ InitStore
    /\ InitMedia
    /\ InitDownloads
    /\ InitPipelines
    /\ config \in VideoSettings

NextConcurrent ==
    \E p \in Pipelines :
       \/ Generate(p)
       \/ ToolSetFormat(p)
       \/ ToolReadTarget(p)
       \/ Finish(p)

SpecConcurrent == InitConcurrent /\ [][NextConcurrent]_vars

\* The fill-resize on its own.
NextResize ==
    \/ ResizeClipToFill
    \/ Return

SpecResize == Init /\ [][NextResize]_vars

\* The two download tools on an empty cache.
NextDownload ==
    \/ DownloadPexelsVideo
    \/ DownloadPixabayMedia
    \/ Return

SpecDownload == Init /\ [][NextDownload]_vars

\* The commands that save generations and rate them.
NextCli ==
    \/ SaveGeneration
    \/ RateVideoCli
    \/ Return

SpecCli == Init /\ [][NextCli]_vars

\* Every operation that writes to the store through the ratings or the
\* generations: the store's two inserts, the commands and the analyses.
NextStore ==
    \/ SaveRating
    \/ SaveGeneration
    \/ RateVideoCli
    \/ AnalyzeRatings
    \/ GetLearningSummary
    \/ Return

SpecStore == Init /\ [][NextStore]_vars

\* The ratings given through the agent's tool, next to those of the rate
\* command.
NextAgentRating ==
    \/ SaveGeneration
    \/ RateVideoCli
    \/ AgentSaveGenerationRating
    \/ OrchestratorSaveGenerationRating
    \/ AnalyzeRatings
    \/ Return

SpecAgentRating == Init /\ [][NextAgentRating]_vars

\* Rating submissions of several pipelines on one store, each statement of
\* the store a step.
InitSubmit ==
    /\ InitStore
    /\ InitMedia
    /\ InitConfig
    /\ InitDownloads
    /\ pipelines = [p \in Pipelines |-> NoSubmission]

NextSubmit ==
    \E p \in Pipelines :
       \/ SubmitRating(p)
       \/ AnalyzeReadCategories(p)
       \/ AnalyzeReadLowAspects(p)
       \/ AnalyzeBlock(p)
       \/ SubmitFinish(p)

SpecSubmit == InitSubmit /\ [][NextSubmit]_vars

\* The trimming on every content of the disk and with every moviepy.
NextTrim ==
    \/ TrimVideo
    \/ Return

SpecTrim == InitCompose /\ [][NextTrim]_vars

\* ------------------------------------------------------------ properties

REq(x, y) == x[1] * y[2] = y[1] * x[2]

\* The rows of a preferences table that have the given type.
OfType(prefs, ptype) == SelectSeq(prefs, LAMBDA p : p.preference_type = ptype)

\* How many recommendations name the aspect.
Naming(recs, a) == Cardinality({k \in 1..Len(recs) : recs[k].aspect = a})

\* How often the hint occurs among the enhancements.
Occurrences(enhancements, hint) ==
    Cardinality({k \in 1..Len(enhancements) : enhancements[k] = hint})

\* C1: with fewer than 3 ratings analyze_ratings returns no recommendation
\* and leaves the preferences table as it was.
C1_FewRatingsNoLearning ==
    [][(ret'.op = "analyze_ratings" /\ Len(ratings) < 3)
          => /\ ret'.status = "ok"
             /\ ret'.insights.recommendations = <<>>
             /\ preferences' = preferences]_vars

\* Two ratings with a script average of 3.0 have been analysed.
C1_Witness ==
    /\ ret.op = "analyze_ratings"
    /\ Len(ratings) = 2
    /\ IsLow(Avg(ratings, "script"))
    /\ ret.insights.low_rated_aspects # <<>>
    /\ ret.insights.recommendations = <<>>
    /\ preferences = <<>>

\* C2: for an aspect whose average is at least 3.5, analyze_ratings emits no
\* recommendation and neither creates nor changes a preference of that type.
C2_GoodAspectUntouched ==
    [][ret'.op = "analyze_ratings"
          => \A a \in AspectSet :
                (Avg(ratings, a) # NullAvg /\ RLe(Threshold, Avg(ratings, a)))
                   => /\ OfType(preferences', a) = OfType(preferences, a)
                      /\ ret'.status = "ok"
                            => Naming(ret'.insights.recommendations, a) = 0]_vars

\* An analysis of at least 3 ratings with a script average of exactly 3.5,
\* while a script preference is stored and another aspect is low.
C2_Witness ==
    /\ ret.op = "analyze_ratings"
    /\ ret.status = "ok"
    /\ Len(ratings) >= 3
    /\ Avg(ratings, "script") = Threshold
    /\ OfType(preferences, "script") # <<>>
    /\ ret.insights.recommendations # <<>>

\* C3: with at least 3 ratings, for every aspect whose average is below 3.5
\* analyze_ratings emits exactly one recommendation naming the aspect and
\* leaves a stored preference of that type with confidence
\* 0.5 + (3.5 - average) * 0.1.
C3_LowAspectLearned ==
    (ret.op = "analyze_ratings" /\ Len(ratings) >= 3)
       => \A a \in AspectSet :
             (Avg(ratings, a) # NullAvg /\ RLt(Avg(ratings, a), Threshold))
                => /\ ret.status = "ok"
                   /\ Naming(ret.insights.recommendations, a) = 1
                   /\ \E i \in 1..Len(preferences) :
                         /\ preferences[i].preference_type = a
                         /\ REq(RAdd(RMul(preferences[i].confidence, <<10, 1>>),
                                     Avg(ratings, a)),
                                <<17, 2>>)

\* C4: the confidence analyze_ratings writes does not decrease as the average
\* decreases; an average of 3.0 gives 0.55 and an average of 2.0 gives 0.65.
C4_ConfidenceMonotone ==
    (ret.op = "analyze_ratings" /\ ret.status = "ok" /\ Len(ratings) >= 3)
       => \A i, j \in 1..Len(preferences) :
             LET a == preferences[i].preference_type
                 b == preferences[j].preference_type
             IN  (RLt(Avg(ratings, a), Threshold)
                  /\ RLt(Avg(ratings, b), Threshold))
                    => /\ RLe(Avg(ratings, a), Avg(ratings, b))
                          => RLe(preferences[j].confidence,
                                 preferences[i].confidence)
                       /\ Avg(ratings, a) = <<3, 1>>
                          => preferences[i].confidence = <<11, 20>>
                       /\ Avg(ratings, a) = <<2, 1>>
                          => preferences[i].confidence = <<13, 20>>

\* One analysis has written the confidences for the averages 3.0, 2.0 and 1.0.
C4_Witness ==
    /\ ret.op = "analyze_ratings"
    /\ ret.status = "ok"
    /\ Avg(ratings, "script") = <<3, 1>>
    /\ Avg(ratings, "visuals") = <<2, 1>>
    /\ Avg(ratings, "audio") = <<1, 1>>
    /\ Len(preferences) = 4
    /\ preferences[1].confidence = <<11, 20>>
    /\ preferences[2].confidence = <<13, 20>>
    /\ preferences[3].confidence = <<3, 4>>

\* C5: every hint in the text enhance_prompt_with_learnings returns comes from
\* a stored preference with confidence at least 0.5: a hint occurs no more
\* often than there are such preferences that map to it.
C5_NoLowConfidenceHint ==
    ret.op = "enhance_prompt_with_learnings"
       => \A k \in 1..Len(ret.text.enhancements) :
             Occurrences(ret.text.enhancements, ret.text.enhancements[k])
                <= Cardinality(
                       {i \in 1..Len(preferences) :
                           /\ RLe(<<1, 2>>, preferences[i].confidence)
                           /\ HintFor(preferences[i], ret.prompt_type)
                                 = ret.text.enhancements[k]})

\* A prompt was enhanced with the hints of other preferences while a script
\* preference that maps to a hint is stored with confidence 0.4.
C5_Witness ==
    /\ ret.op = "enhance_prompt_with_learnings"
    /\ ret.prompt_type = "general"
    /\ \E i \in 1..Len(preferences) :
          /\ RLt(preferences[i].confidence, <<1, 2>>)
          /\ HintFor(preferences[i], "general") # NoHint
          /\ Occurrences(ret.text.enhancements,
                         HintFor(preferences[i], "general")) = 0
    /\ Len(ret.text.enhancements) >= 2

\* C6: get_learning_summary leaves the preferences table unchanged, and a
\* second call returns the same summary.
C6_SummaryReadOnly ==
    [][ret'.op = "get_learning_summary"
          => /\ preferences' = preferences
             /\ ret'.status = "ok"
                   => \E again \in {analyze_ratings(ratings', preferences')} :
                         \E prefs \in get_preferences(again.preferences) :
                            ret'.summary
                               = LearningSummary(again.insights, prefs)]_vars

\* No two rows of the preferences table have the same type and key.
PreferenceKeysUnique ==
    \A i, j \in 1..Len(preferences) :
       (/\ preferences[i].preference_type = preferences[j].preference_type
        /\ preferences[i].preference_key = preferences[j].preference_key)
          => i = j

\* C7: the preferences table holds at most one row per (type, key); an upsert
\* for an existing (type, key) replaces that row's value and confidence and
\* changes no other row, an upsert for a new one adds a row, and no step
\* removes a row or changes its key.
C7_UpsertByKey ==
    /\ []PreferenceKeysUnique
    /\ [][/\ Len(preferences') >= Len(preferences)
          /\ \A i \in 1..Len(preferences) :
                /\ preferences'[i].preference_type
                      = preferences[i].preference_type
                /\ preferences'[i].preference_key
                      = preferences[i].preference_key
          /\ ret'.op = "update_preference"
                => LET hit == {i \in 1..Len(preferences) :
                                  /\ preferences[i].preference_type
                                        = ret'.row.preference_type
                                  /\ preferences[i].preference_key
                                        = ret'.row.preference_key}
                   IN  /\ hit = {} => preferences' = Append(preferences, ret'.row)
                       /\ hit # {}
                             => /\ Len(preferences') = Len(preferences)
                                /\ \A i \in 1..Len(preferences) :
                                      preferences'[i] = IF i \in hit
                                                        THEN ret'.row
                                                        ELSE preferences[i]]_vars

\* update_preference has overwritten the first of three rows, replacing the
\* value analyze_ratings or an earlier call had stored.
C7_Witness ==
    /\ ret.op = "update_preference"
    /\ ret.row.preference_value = "concise"
    /\ Len(preferences) >= 3
    /\ preferences[1] = ret.row
    /\ preferences[2].preference_type = "visuals"

\* C8: in every state reached by saving ratings with scores in 1..5 and
\* analysing them, every stored preference has a confidence within [0, 1].
C8_ConfidenceInUnitInterval ==
    \A i \in 1..Len(preferences) :
       /\ RLe(<<0, 1>>, preferences[i].confidence)
       /\ RLe(preferences[i].confidence, <<1, 1>>)

\* The lowest average the scores allow, 1.0, has been analysed: the stored
\* confidence is 0.75.
C8_Witness ==
    /\ ret.op = "analyze_ratings"
    /\ \E i \in 1..Len(preferences) :
          /\ Avg(ratings, preferences[i].preference_type) = <<1, 1>>
          /\ preferences[i].confidence = <<3, 4>>

\* C9: when the list of clip paths is empty or none of the paths exists on
\* disk, compose_video returns an error result and writes no output video.
C9_NoClipsIsError ==
    [][(/\ ret'.op = "compose_video"
        /\ \A i \in 1..Len(ret'.video_clips) : ~Exists(ret'.video_clips[i]))
          => /\ ret'.status = "error"
             /\ ~ret'.result.written
             /\ rendered' = rendered]_vars

\* compose_video was called with two paths of which none exists, with a
\* narration that does, and moviepy installed.
C9_Witness ==
    /\ ret.op = "compose_video"
    /\ MOVIEPY_VERSION # 0
    /\ Len(ret.video_clips) = 2
    /\ \A i \in 1..Len(ret.video_clips) : ~Exists(ret.video_clips[i])
    /\ ret.audio_path # NoPath /\ Exists(ret.audio_path)
    /\ ret.result.error_message = "No valid video clips could be loaded"
    /\ rendered = {}

\* C10: for a narration of duration D and N clips, every clip
\* adjust_clips_to_duration returns lasts D / N: a longer clip is cut, a
\* shorter clip is looped, an equal clip is passed through; the durations
\* add up to D.
C10_EvenSplit ==
    (ret.op = "adjust_clips_to_duration" /\ ret.clips # <<>>)
       => LET n == Len(ret.clips)
              budget == Rat(ret.total_duration[1], ret.total_duration[2] * n)
          IN  /\ ret.result.ok
              /\ Len(ret.result.clips) = n
              /\ \A i \in 1..n :
                    /\ ret.result.clips[i].duration = budget
                    /\ ret.result.clips[i].source = ret.clips[i].source
                    /\ RLt(budget, ret.clips[i].duration)
                          => ret.result.clips[i].edits = <<"subclip">>
                    /\ RLt(ret.clips[i].duration, budget)
                          => Head(ret.result.clips[i].edits) = "loop"
                    /\ ret.clips[i].duration = budget
                          => ret.result.clips[i] = ret.clips[i]
              /\ SumDurations(ret.result.clips) = ret.total_duration

\* Clips of 2, 10 and 2 seconds were adjusted to a narration of 6 seconds.
C10_Witness ==
    /\ ret.op = "adjust_clips_to_duration"
    /\ ret.total_duration = <<6, 1>>
    /\ Len(ret.clips) = 3
    /\ ret.clips[1].duration = <<2, 1>>
    /\ ret.clips[2].duration = <<10, 1>>
    /\ ret.clips[3].duration = <<2, 1>>
    /\ \A i \in 1..3 : ret.result.clips[i].duration = <<2, 1>>

\* The narration of a returned compose_video call exists on disk.
HasNarration ==
    ret.audio_path # NoPath /\ Exists(ret.audio_path)

\* How often the edit occurs among the edits of a clip.
EditCount(clip, edit) ==
    Cardinality({k \in 1..Len(clip.edits) : clip.edits[k] = edit})

\* C11: whenever compose_video succeeds with a narration file that exists,
\* the duration it reports is the duration of the narration, whatever the
\* number and durations of the clips.
C11_AudioLedDuration ==
    (ret.op = "compose_video" /\ ret.status = "success" /\ HasNarration)
       => /\ ret.result.duration = Rat(files[ret.audio_path].duration, 1)
          /\ ret.result.video.duration = ret.result.duration
          /\ ret.result.video.audio = ret.audio_path

\* Three clips were composed to a narration of 7 seconds with moviepy 2; the
\* float sum of the three budgets came out short and the concatenation was
\* looped to the narration.
C11_Witness ==
    /\ ret.op = "compose_video"
    /\ ret.status = "success"
    /\ HasNarration
    /\ MOVIEPY_VERSION = 2
    /\ Len(ret.result.clips) = 3
    /\ ret.result.video.edits = <<"loop", "subclip">>
    /\ ret.result.duration = <<7, 1>>

\* C12: composing a single clip that is as long as the narration reports the
\* duration of the narration, and the clip is neither cut nor looped, neither
\* by adjust_clips_to_duration nor by the final step.
C12_EqualClipUntouched ==
    (/\ ret.op = "compose_video"
     /\ ret.status = "success"
     /\ HasNarration
     /\ Len(ret.result.clips) = 1
     /\ files[ret.result.clips[1].source].duration
           = files[ret.audio_path].duration)
       => /\ ret.result.duration = Rat(files[ret.audio_path].duration, 1)
          /\ ret.result.clips[1].edits = <<>>
          /\ ret.result.video.edits = <<>>
          /\ ret.result.video.parts = <<VideoFileClip(ret.result.clips[1].source)>>

\* One clip of 6 seconds was composed to a narration of 6 seconds, with the
\* fade transition asked for.
C12_Witness ==
    /\ ret.op = "compose_video"
    /\ ret.status = "success"
    /\ HasNarration
    /\ ret.video_clips = <<"a.mp4">>
    /\ ret.transitions = "fade"
    /\ files["a.mp4"].duration = 6
    /\ files[ret.audio_path].duration = 6
    /\ ret.result.duration = <<6, 1>>

\* C15: whenever compose_video returns (a success, an early error, or the
\* error of an exception raised while loading, resizing, reading the audio,
\* reconciling, concatenating or rendering), every handle it opened is
\* closed, and an exception has become an error result.
C15_HandlesReleased ==
    ret.op = "compose_video"
       => /\ ret.result.opened \subseteq ret.result.closed
          /\ ret.result.status \in {"success", "error"}
          /\ ret.result.raised_at # "" => ret.result.status = "error"

\* write_videofile raised after two clips and the narration were opened.
C15_Witness ==
    /\ ret.op = "compose_video"
    /\ ret.result.status = "error"
    /\ ret.result.raised_at = "write"
    /\ ret.result.opened = {AudioHandle, 1, 2}
    /\ ret.result.closed = {AudioHandle, 1, 2}
    /\ rendered = {}

\* C17: a path that does not exist is skipped: when at least one listed path
\* exists, compose_video fails only on an exception (of a file it cannot
\* decode or of a later step), and when it succeeds the clips it concatenated
\* are the existing paths in the order of the list, each with the budget of
\* the narration divided by their number.
C17_MissingClipSkipped ==
    (/\ ret.op = "compose_video"
     /\ MOVIEPY_VERSION # 0
     /\ \E i \in 1..Len(ret.video_clips) : Exists(ret.video_clips[i]))
       => LET existing == SelectSeq(ret.video_clips, Exists)
          IN  /\ ret.status = "error"
                    => \/ ret.result.raised_at \in {"resize", "concatenate", "write"}
                       \/ /\ ret.result.raised_at = "load"
                          /\ \E i \in 1..Len(existing) :
                                ~files[existing[i]].readable
                       \/ /\ ret.result.raised_at = "audio"
                          /\ ~files[ret.audio_path].readable
              /\ ret.status = "success"
                    => /\ Len(ret.result.clips) = Len(existing)
                       /\ \A i \in 1..Len(existing) :
                             ret.result.clips[i].source = existing[i]
                       /\ ret.result.video.parts = ret.result.clips
                       /\ HasNarration
                             => \A i \in 1..Len(existing) :
                                   REq(RMul(ret.result.clips[i].duration,
                                            <<Len(existing), 1>>),
                                       <<files[ret.audio_path].duration, 1>>)

\* Of three listed paths the second does not exist; the other two were
\* composed to the narration, each with half of its duration.
C17_Witness ==
    /\ ret.op = "compose_video"
    /\ ret.status = "success"
    /\ HasNarration
    /\ Len(ret.video_clips) = 3
    /\ Exists(ret.video_clips[1])
    /\ ~Exists(ret.video_clips[2])
    /\ Exists(ret.video_clips[3])
    /\ Len(ret.result.clips) = 2
    /\ ret.result.clips[1].duration
          = Rat(files[ret.audio_path].duration, 2)

Expected(video_format, resolution) ==
    IF video_format = "vertical" THEN Swap(Baseline(resolution))
    ELSE Baseline(resolution)

\* C14: whoever calls compose_video (directly, the tool of agent.py, the tool
\* of the orchestrator) and whatever config.video.format is, the target is
\* the horizontal baseline of the configured resolution for "horizontal" and
\* the baseline with width and height swapped for "vertical"; a call without
\* a format takes the configured one.
C14_TargetGeometry ==
    (/\ ret.op \in {"compose_video", "agent.compose_video",
                    "orchestrator.compose_video"}
     /\ ret.status = "success")
       => ret.result.resolution
             = Expected(IF ret.video_format # NoFormat THEN ret.video_format
                        ELSE config.format,
                        config.resolution)

\* C20: the target of a generation's composition is the one its own format
\* asks for, whatever another generation running at the same time does.
C20_IndependentPipelines ==
    \A p \in Pipelines :
       pipelines[p].pc = "composed"
          => pipelines[p].target
                = TargetDimensions(pipelines[p].video_format,
                                   [config EXCEPT
                                       !.format = pipelines[p].video_format])

\* C13: resize_clip_to_fill resizes to a frame that covers the target, one
\* side equal to the target's, and crops a centred box of the target's size
\* that lies inside the frame, with offset 0 on one axis; a 4:3 clip into a
\* 16:9 target is cropped at top and bottom only.
C13_FillResize ==
    ret.op = "resize_clip_to_fill" =>
       LET r == ret.result
           W == ret.target_width
           H == ret.target_height
       IN  /\ r.resized[1] >= W
           /\ r.resized[2] >= H
           /\ r.resized[1] = W \/ r.resized[2] = H
           /\ r.x2 - r.x1 = W
           /\ r.y2 - r.y1 = H
           /\ r.x1 >= 0 /\ r.x2 <= r.resized[1]
           /\ r.y1 >= 0 /\ r.y2 <= r.resized[2]
           /\ r.x1 = 0 \/ r.y1 = 0
           /\ (ret.clip[1] * 3 = ret.clip[2] * 4 /\ W * 9 = H * 16) =>
                 (r.x1 = 0 /\ r.resized[1] = W)

DownloadOps == {"download_pexels_video", "download_pixabay_media"}

\* C16: a download whose target file exists returns success with
\* cached = true and the path of that file, issues no request and leaves the
\* cache as it is; a download that returns success leaves its file in the
\* cache, so the next call for it is such a hit.
C16_IdempotentDownload ==
    [][(ret = Idle /\ ret'.op \in DownloadOps) =>
          /\ cache[ret'.file_path] # "absent" =>
                /\ ret'.result.status = "success"
                /\ ret'.result.cached
                /\ ret'.result.file_path = ret'.file_path
                /\ requests' = requests
                /\ cache' = cache
          /\ ret'.result.status = "success" =>
                cache'[ret'.file_path] # "absent"]_vars

\* A second call after a complete download was a cache hit.
C16_Witness ==
    /\ ret.op \in DownloadOps
    /\ ret.status = "success"
    /\ ret.result.cached
    /\ cache[ret.file_path] = "complete"
    /\ requests >= 1

\* C19: rate_video_cli with a generation_id no stored generation has prints
\* that it was not found and returns without raising, saves no rating and
\* changes no preference; with the id of a stored generation it adds exactly
\* one rating, which references that generation.
C19_MissingGenerationReported ==
    [][(ret = Idle /\ ret'.op = "rate_video_cli") =>
          IF \E i \in 1..Len(generations) :
                generations[i].id = ret'.generation_id
          THEN /\ Len(ratings') = Len(ratings) + 1
               /\ SubSeq(ratings', 1, Len(ratings)) = ratings
               /\ ratings'[Len(ratings')].generation_id = ret'.generation_id
          ELSE /\ ret'.status = "ok"
               /\ ret'.printed = "not found"
               /\ ratings' = ratings
               /\ preferences' = preferences]_vars

\* A rating for an unknown id was turned away while generations, ratings and
\* learned preferences are stored.
C19_Witness ==
    /\ ret.op = "rate_video_cli"
    /\ ret.printed = "not found"
    /\ ret.generation_id > Len(generations)
    /\ generations # <<>>
    /\ ratings # <<>>
    /\ preferences # <<>>

\* The hint of a (type, value) pair of the lookup table, NoHint outside it.
TableHint(ptype, pvalue) ==
    CASE ptype = "script" /\ pvalue = "more_engaging" ->
            "Focus on creating highly engaging, hook-driven content"
      [] ptype = "visuals" /\ pvalue = "higher_quality" ->
            "Prioritize high-quality, professional-looking footage"
      [] ptype = "audio" /\ pvalue = "clearer_speech" ->
            "Ensure clear, well-paced narration"
      [] ptype = "pacing" /\ pvalue = "moderate" ->
            "Use moderate pacing with smooth transitions"
      [] OTHER -> NoHint

\* The stored preferences that give the hint for the prompt type: confidence
\* at least 0.5, the type of the prompt (any type for 'general'), and a
\* (type, value) pair of the lookup table.
HintGivers(prefs, prompt_type, hint) ==
    {i \in 1..Len(prefs) :
        /\ RLe(<<1, 2>>, prefs[i].confidence)
        /\ prompt_type \in {prefs[i].preference_type, "general"}
        /\ TableHint(prefs[i].preference_type, prefs[i].preference_value)
              = hint}

\* The four hints of the lookup table.
AllHints == {TableHint(a, LearnedPreference[a].value) : a \in AspectSet}

\* C21: enhance_prompt_with_learnings appends one hint for every stored
\* preference of confidence >= 0.5 whose type is the prompt type (every type
\* for 'general') and whose (type, value) pair is in the lookup table, and no
\* other hint; without a hint it returns base_prompt as it is; it completes
\* and leaves the store unchanged.
C21_HintPerPreference ==
    [][(ret = Idle /\ ret'.op = "enhance_prompt_with_learnings") =>
          /\ ret'.status = "ok"
          /\ \A hint \in AllHints :
                Occurrences(ret'.text.enhancements, hint)
                   = Cardinality(HintGivers(preferences, ret'.prompt_type,
                                            hint))
          /\ \A k \in 1..Len(ret'.text.enhancements) :
                ret'.text.enhancements[k] \in AllHints
          /\ ret'.text.enhancements = <<>> =>
                ret'.text.lines = <<ret'.text.base_prompt>>
          /\ Len(ret'.text.lines) \in {1, 3 + Len(ret'.text.enhancements)}
          /\ preferences' = preferences
          /\ ratings' = ratings
          /\ generations' = generations]_vars

\* An 'audio' prompt got the audio hints only, while a visuals preference
\* and a preference outside the lookup table are stored with confidence 0.5
\* or more.
C21_Witness ==
    /\ ret.op = "enhance_prompt_with_learnings"
    /\ ret.prompt_type = "audio"
    /\ Len(ret.text.enhancements) >= 1
    /\ Len(ret.text.enhancements) < Len(preferences)
    /\ \E i \in 1..Len(preferences) :
          /\ RLe(<<1, 2>>, preferences[i].confidence)
          /\ TableHint(preferences[i].preference_type,
                       preferences[i].preference_value) = NoHint
    /\ \E i \in 1..Len(preferences) :
          /\ RLe(<<1, 2>>, preferences[i].confidence)
          /\ preferences[i].preference_type = "visuals"

\* C22: a preference analyze_ratings has stored is never deleted; it keeps
\* its value and confidence through every step but an analysis that finds
\* the average of its aspect below 3.5, so through every analysis with that
\* average at 3.5 or more; and every 'general' prompt carries its hint.
C22_StalePreferencePersists ==
    [][/\ Len(preferences') >= Len(preferences)
       /\ \A i \in 1..Len(preferences) :
             /\ preferences'[i].preference_type
                   = preferences[i].preference_type
             /\ preferences'[i].preference_key = preferences[i].preference_key
             /\ preferences'[i] # preferences[i] =>
                   /\ ret'.op \in {"analyze_ratings", "get_learning_summary"}
                   /\ Avg(ratings, preferences[i].preference_type) # NullAvg
                   /\ RLt(Avg(ratings, preferences[i].preference_type),
                          Threshold)
             /\ (/\ ret = Idle
                 /\ ret'.op = "enhance_prompt_with_learnings"
                 /\ ret'.prompt_type = "general") =>
                   Occurrences(ret'.text.enhancements,
                               TableHint(preferences[i].preference_type,
                                         preferences[i].preference_value))
                      >= 1]_vars

\* An analysis ran with a script average of 3.5 while the script preference
\* stored at the average 3.0 (confidence 0.55) is still in the table.
C22_Witness ==
    /\ ret.op = "analyze_ratings"
    /\ ret.status = "ok"
    /\ REq(ret.insights.category_averages.script, Threshold)
    /\ \E i \in 1..Len(preferences) :
          /\ preferences[i].preference_type = "script"
          /\ preferences[i].preference_value = "more_engaging"
          /\ REq(preferences[i].confidence, <<11, 20>>)

\* C23: no step changes or removes a stored rating or a stored generation;
\* the tables only grow at the end.
C23_AppendOnly ==
    [][/\ Len(ratings') >= Len(ratings)
       /\ SubSeq(ratings', 1, Len(ratings)) = ratings
       /\ Len(generations') >= Len(generations)
       /\ SubSeq(generations', 1, Len(generations)) = generations]_vars

\* Two ratings reference the second generation, an analysis has stored
\* preferences and a rating has just been turned away.
C23_Witness ==
    /\ Len(generations) = 2
    /\ Cardinality({i \in 1..Len(ratings) : ratings[i].generation_id = 2}) >= 2
    /\ Len(ratings) >= 3
    /\ preferences # <<>>
    /\ ret.op = "save_rating"
    /\ ret.status = "IntegrityError"

\* The call was made without a narration path or with a path that is not on
\* the disk.
NoNarration ==
    ret.audio_path = NoPath \/ ~files[ret.audio_path].exists

\* C24: without a narration file compose_video fails only for a reason of
\* its own (no moviepy, no clip on disk, a clip that cannot be read, a
\* failing resize, concatenation or write); when it succeeds no clip was cut
\* or looped, the concatenation was neither cut nor looped and carries no
\* audio, no audio handle was opened, and the reported duration is the sum
\* of the durations of the clip files that exist.
C24_VideoOnlyComposition ==
    (ret.op = "compose_video" /\ NoNarration) =>
       LET r == ret.result
           existing == SelectSeq(ret.video_clips,
                                 LAMBDA path : files[path].exists)
       IN  /\ ret.status = "error" =>
                 \/ MOVIEPY_VERSION = 0
                 \/ existing = <<>>
                 \/ r.raised_at \in {"load", "resize", "concatenate", "write"}
           /\ ret.status = "success" =>
                 /\ AudioHandle \notin r.opened
                 /\ r.video.audio = NoPath
                 /\ r.video.edits = <<>>
                 /\ Len(r.clips) = Len(existing)
                 /\ \A i \in 1..Len(r.clips) :
                       /\ r.clips[i].source = existing[i]
                       /\ r.clips[i].duration
                             = Rat(files[existing[i]].duration, 1)
                       /\ EditCount(r.clips[i], "subclip") = 0
                       /\ EditCount(r.clips[i], "loop") = 0
                 /\ r.duration = SumDurations(r.clips)

\* Three clips of two different lengths were composed with fades, with a
\* narration path that is not on the disk.
C24_Witness ==
    /\ ret.op = "compose_video"
    /\ ret.status = "success"
    /\ ret.audio_path # NoPath
    /\ ~files[ret.audio_path].exists
    /\ ret.transitions = "fade"
    /\ Len(ret.result.clips) = 3
    /\ ret.result.clips[1].duration # ret.result.clips[2].duration
    /\ RLt(<<10, 1>>, ret.result.duration)

\* C25: whenever save_generation_rating returns status 'success' with the
\* message that the rating was saved, the ratings table has one more row,
\* with the given scores, for a stored generation.
C25_ToolRatingPersisted ==
    [][(/\ ret = Idle
        /\ ret'.op = "save_generation_rating"
        /\ ret'.status = "success"
        /\ ret'.message = "Rating saved") =>
          /\ Len(ratings') = Len(ratings) + 1
          /\ \A a \in AspectSet \cup {"overall"} :
                Column(ratings'[Len(ratings')], a)
                   = Column(ret'.rating, a)
          /\ \E i \in 1..Len(generations) :
                generations[i].id = ratings'[Len(ratings')].generation_id]_vars

\* C26: analyze_ratings and get_learning_summary return a result on every
\* stored rating history; an aspect that has no score on any rating gets no
\* recommendation and no upsert.
C26_AnalysisCompletes ==
    [][(ret = Idle
        /\ ret'.op \in {"analyze_ratings", "get_learning_summary"}) =>
          /\ ret'.status = "ok"
          /\ \A a \in AspectSet :
                Avg(ratings, a) = NullAvg =>
                   /\ OfType(preferences', a) = OfType(preferences, a)
                   /\ ret'.op = "analyze_ratings" =>
                         Naming(ret'.insights.recommendations, a) = 0]_vars

\* C27: when every rating submission has finished, each aspect whose
\* average over the stored ratings is below 3.5 (three or more ratings
\* stored) has the stored confidence 0.5 + (3.5 - average) * 0.1.
C27_ConcurrentSubmissionsConverge ==
    (/\ \A p \in Pipelines : pipelines[p].pc \in {"idle", "done"}
     /\ \E p \in Pipelines : pipelines[p].pc = "done"
     /\ Len(ratings) >= 3) =>
       \A a \in AspectSet :
          (Avg(ratings, a) # NullAvg /\ RLt(Avg(ratings, a), Threshold)) =>
             \E i \in 1..Len(preferences) :
                /\ preferences[i].preference_type = a
                /\ preferences[i].preference_key = LearnedPreference[a].key
                /\ REq(preferences[i].confidence,
                       Confidence(Avg(ratings, a)))

\* The aspects a sequence of records names.
AspectsOf(recs) == {recs[k].aspect : k \in 1..Len(recs)}

\* C29: in the insights an analysis returns, the aspects of
\* low_rated_aspects are those whose reported average is non-null and below
\* 3.5, and with three or more ratings the recommendations name exactly
\* these aspects.
C29_InsightsConsistent ==
    \A p \in Pipelines :
       (pipelines[p].pc = "done" /\ pipelines[p].status = "ok") =>
          /\ AspectsOf(pipelines[p].low_aspects)
                = {a \in AspectSet :
                      /\ pipelines[p].category_ratings[a] # NullAvg
                      /\ RLt(pipelines[p].category_ratings[a], Threshold)}
          /\ pipelines[p].category_ratings.total_ratings >= 3 =>
                AspectsOf(pipelines[p].recommendations)
                   = AspectsOf(pipelines[p].low_aspects)

\* C28: a download call returns success with cached = true only for a file
\* that was downloaded completely.
C28_CachedFileComplete ==
    (ret.op \in DownloadOps /\ ret.status = "success" /\ ret.result.cached)
       => cache[ret.file_path] = "complete"

\* C30: when trim_video returns, with a success or with an error result,
\* every clip handle it opened has been closed.
C30_TrimReleasesClip ==
    ret.op = "trim_video" => ret.result.opened \subseteq ret.result.closed

====
